---- MODULE Spec2Model ----
(***************************************************************************)
(* Model of src/main/place_objects.py: main() calling place_objects(cfg).  *)
(* One action per statement group of place_objects, so that an interrupt   *)
(* can arrive between any two of them.  pyautogui (screen, pointer) is the *)
(* environment: its answers are drawn with \E where the code asks.         *)
(***************************************************************************)
EXTENDS Integers, Sequences, FiniteSets, TLC

VARIABLES
    cfg,                    \* PlacementConfig, fixed for the run
    pc,                     \* position of the control flow
    anchor,                 \* <<left, top>> of the located Box
    anchor_outcome,         \* how locate_anchor ended
    list_start_x, list_start_y,
    placement_origin,       \* resolved origin <<x, y>>
    screen_height,          \* resolved screen height
    visible_rows,
    scroll_rows_consumed, placed, index,
    row_in_view, rows_to_scroll, scroll_amount,
    list_pos, col, row, world_pos,
    catSample, itemSample,  \* what the two pixel samples of this row gave
    classification,         \* how this row was classified
    rowOps,                 \* what this iteration did so far, in order
    invoked,                \* pyautogui operations called so far
    selectClicks, placeClicks, scrollCalls,
    placements,             \* what each place click was planned as: col, row, pos
    trace,                  \* the "Would click" lines printed: <<list_pos, world_pos>>
    printed,                \* kinds of lines printed so far
    exit_status             \* <<>> until main returns, then <<status>>

setupVars == <<anchor, anchor_outcome, list_start_x, list_start_y, placement_origin,
               screen_height, visible_rows>>
loopVars  == <<scroll_rows_consumed, placed, index>>
localVars == <<row_in_view, rows_to_scroll, scroll_amount, list_pos, col, row, world_pos>>
rowVars   == <<catSample, itemSample, classification, rowOps>>
histVars  == <<invoked, selectClicks, placeClicks, scrollCalls, placements, trace, printed>>
vars == <<cfg, pc, setupVars, loopVars, localVars, rowVars, histVars, exit_status>>

-----------------------------------------------------------------------------
(* Bounds of the model *)

\* rows explored past the first screenful
MaxExtraRows == 2

(* Program constants *)
DefaultScreenHeight == 1080
DefaultRowHeight == 26
DefaultListOffsetX == 10
DefaultListOffsetY == 40
DefaultSpacing == 120
DefaultPerRow == 15
DefaultScrollClicks == 3
DefaultCategoryTolerance == 8
DefaultCategoryOffsetX == -14
DefaultItemTolerance == 10
DefaultItemOffsetX == 26
DefaultItemOffsetY == 12

None == <<>>
Some(v) == <<v>>
DefaultItemColor == <<142, 125, 18>>

\* a category triangle colour, as --category-color would give it
CategoryColor == <<255, 255, 255>>

\* what a pixel read can give: a colour, or an exception (SampleError)
SampleError == <<>>
Pixels == {CategoryColor, <<250, 250, 250>>, DefaultItemColor, <<150, 120, 18>>,
           <<0, 0, 0>>}
SampleOutcomes == Pixels \cup {SampleError}

\* what pyautogui.size() can give: a height, or an exception
SizeError == <<>>
SizeOutcomes == {Some(1300), SizeError}

\* what pyautogui.position() can give
PointerPositions == {<<7, 9>>}

\* what locate_anchor can meet
AnchorOutcomes == {"missing", "not_found", "found"}
AnchorBoxes == {<<0, 0>>, <<200, 14>>}

-----------------------------------------------------------------------------
(* Configurations *)

Geometries ==
    { [screen_height |-> None,      row_height |-> 400, list_offset_y |-> DefaultListOffsetY],
      [screen_height |-> Some(0),   row_height |-> 400, list_offset_y |-> DefaultListOffsetY],
      [screen_height |-> Some(100), row_height |-> DefaultRowHeight, list_offset_y |-> DefaultListOffsetY],
      [screen_height |-> Some(30),  row_height |-> DefaultRowHeight, list_offset_y |-> DefaultListOffsetY] }

Grids ==
    { [per_row |-> 2, spacing_pixels |-> 0],
      [per_row |-> 2, spacing_pixels |-> 3],
      [per_row |-> 1, spacing_pixels |-> 3] }

MkConfig(dry, lim, cat, item, req, org, geo, grid) ==
    [ dry_run |-> dry, limit |-> lim,
      category_color |-> cat, category_color_tolerance |-> DefaultCategoryTolerance,
      category_icon_offset_x |-> DefaultCategoryOffsetX,
      item_color |-> item, item_color_tolerance |-> DefaultItemTolerance,
      item_color_offset_x |-> DefaultItemOffsetX,
      item_color_offset_y |-> DefaultItemOffsetY,
      require_item_color |-> req,
      placement_origin |-> org,
      screen_height |-> geo.screen_height, row_height |-> geo.row_height,
      list_offset_x |-> DefaultListOffsetX, list_offset_y |-> geo.list_offset_y,
      per_row |-> grid.per_row, spacing_pixels |-> grid.spacing_pixels,
      scroll_clicks_per_row |-> DefaultScrollClicks ]

GenericConfigs ==
    { MkConfig(dry, lim, cat, item, req, org, geo, grid) :
        dry \in BOOLEAN, lim \in {None, Some(0), Some(2)},
        cat \in {None, CategoryColor}, item \in {None, DefaultItemColor},
        req \in BOOLEAN, org \in {None, <<0, 0>>},
        geo \in Geometries, grid \in Grids }

\* the defaults of PlacementConfig on a 1080-pixel screen, origin (0,0)
ScenarioGeometry ==
    [screen_height |-> Some(1080), row_height |-> DefaultRowHeight,
     list_offset_y |-> DefaultListOffsetY]
ScenarioGrid == [per_row |-> DefaultPerRow, spacing_pixels |-> DefaultSpacing]
ScenarioConfigs ==
    { MkConfig(dry, None, cat, DefaultItemColor, TRUE, <<0, 0>>, ScenarioGeometry, ScenarioGrid) :
        dry \in BOOLEAN, cat \in {None, CategoryColor} }

\* other values of --scroll-clicks-per-row
ScrollConfigs ==
    { [MkConfig(dry, lim, None, DefaultItemColor, TRUE, <<0, 0>>, geo, grid)
         EXCEPT !.scroll_clicks_per_row = k] :
        dry \in BOOLEAN, lim \in {None, Some(2)}, k \in {-1, 0, 1},
        geo \in {g \in Geometries : g.screen_height = Some(100)},
        grid \in {g \in Grids : g.per_row = 2 /\ g.spacing_pixels = 3} }

\* --limit takes any integer: a negative one
NegativeLimitConfigs ==
    { MkConfig(dry, Some(-1), cat, DefaultItemColor, TRUE, <<0, 0>>, geo, grid) :
        dry \in BOOLEAN, cat \in {None, CategoryColor},
        geo \in {g \in Geometries : g.screen_height = Some(100)},
        grid \in {g \in Grids : g.per_row = 2 /\ g.spacing_pixels = 3} }

Configs ==
    GenericConfigs \cup ScenarioConfigs \cup ScrollConfigs \cup NegativeLimitConfigs

-----------------------------------------------------------------------------
(* Pure helpers *)

Max(a, b) == IF a >= b THEN a ELSE b
Abs(a) == IF a >= 0 THEN a ELSE -a

\* Python truthiness of an Optional[int] / Optional[tuple]
TruthyInt(o) == o # None /\ o[1] # 0
TruthyTuple(o) == o # None

\* pyautogui.pixelMatchesColor: every channel within the tolerance
PixelMatchesColor(pixel, colour, tolerance) ==
    \A i \in 1..3 : Abs(pixel[i] - colour[i]) <= tolerance

\* the early return of row_has_item_color pasted into is_category_row
IsCategoryRowUnlessItemOff(c, sample) ==
    IF c.category_color = None \/ ~c.require_item_color THEN FALSE
    ELSE IF sample = SampleError THEN FALSE
    ELSE PixelMatchesColor(sample, c.category_color, c.category_color_tolerance)

\* is_category_row, given what the pixel read gives
IsCategoryRow(c, sample) ==
    IF c.category_color = None THEN FALSE
    ELSE IF sample = SampleError THEN FALSE
    ELSE PixelMatchesColor(sample, c.category_color, c.category_color_tolerance)

\* require_item_color forgotten in the early return
RowHasItemColorIgnoresFlag(c, sample) ==
    IF c.item_color = None THEN TRUE
    ELSE IF sample = SampleError THEN FALSE
    ELSE PixelMatchesColor(sample, c.item_color, c.item_color_tolerance)

\* row_has_item_color, given what the pixel read gives
RowHasItemColor(c, sample) ==
    IF c.item_color = None \/ ~c.require_item_color THEN TRUE
    ELSE IF sample = SampleError THEN FALSE
    ELSE PixelMatchesColor(sample, c.item_color, c.item_color_tolerance)

\* the two functions sample a pixel only past their early return
CategorySamples(c) == c.category_color # None
ItemSamples(c) == ~(c.item_color = None \/ ~c.require_item_color)

SafeScreenHeight(size) == IF size = SizeError THEN DefaultScreenHeight ELSE size[1]

\* the clamp to one row forgotten
VisibleRowsNoClamp(sh, lsy, rh) == (sh - lsy) \div rh
VisibleRows(sh, lsy, rh) == Max(1, (sh - lsy) \div rh)

\* off by one: scrolls one row too few
RowsToScrollShort(riv, vis) == riv - vis
RowsToScroll(riv, vis) == riv - vis + 1
\* the minus sign forgotten: the list scrolls up
ScrollAmountUp(c, rts) == c.scroll_clicks_per_row * rts
ScrollAmount(c, rts) == (-c.scroll_clicks_per_row) * rts

\* no limit taken for a limit of 0
LoopGuardNoneIsZero(c, p) == c.limit # None /\ p < c.limit[1]
\* off by one: one placement too many
LoopGuardInclusive(c, p) == c.limit = None \/ p <= c.limit[1]
LoopGuard(c, p) == c.limit = None \/ p < c.limit[1]

ListPos(lsx, lsy, riv, c) == <<lsx, lsy + riv * c.row_height>>

Col(p, c) == p % c.per_row
Row(p, c) == p \div c.per_row
\* x from the grid row and y from the column
WorldPosSwapped(origin, p, c) ==
    <<origin[1] + Row(p, c) * c.spacing_pixels,
      origin[2] + Col(p, c) * c.spacing_pixels>>
\* the column used for both coordinates
WorldPosColTwice(origin, p, c) ==
    <<origin[1] + Col(p, c) * c.spacing_pixels,
      origin[2] + Col(p, c) * c.spacing_pixels>>
WorldPos(origin, p, c) ==
    <<origin[1] + Col(p, c) * c.spacing_pixels,
      origin[2] + Row(p, c) * c.spacing_pixels>>

\* where the two functions sample, from the row's list position
CategorySamplePos(lp, c) == <<lp[1] + c.category_icon_offset_x, lp[2]>>
ItemSamplePos(lp, c) == <<lp[1] + c.item_color_offset_x, lp[2] + c.item_color_offset_y>>

\* one call or statement of an iteration, as logged in rowOps
Op(name, args) == [op |-> name, args |-> args]

\* what a pixel read showed, whatever the caller made of it
SampleKind(samples, sample, colour, tolerance) ==
    IF ~samples THEN "none"
    ELSE IF sample = SampleError THEN "error"
    ELSE IF PixelMatchesColor(sample, colour, tolerance) THEN "match" ELSE "nomatch"

-----------------------------------------------------------------------------
(* Initial state: main has parsed the arguments and is about to call       *)
(* place_objects                                                           *)

Init ==
    /\ cfg \in Configs
    /\ pc = "locate"
    /\ anchor = <<0, 0>> /\ anchor_outcome = "none"
    /\ list_start_x = 0 /\ list_start_y = 0
    /\ placement_origin = <<0, 0>>
    /\ screen_height = 0
    /\ visible_rows = 0
    /\ scroll_rows_consumed = 0 /\ placed = 0 /\ index = 0
    /\ row_in_view = 0 /\ rows_to_scroll = 0 /\ scroll_amount = 0
    /\ list_pos = <<0, 0>> /\ col = 0 /\ row = 0 /\ world_pos = <<0, 0>>
    /\ catSample = "none" /\ itemSample = "none" /\ classification = "None"
    /\ rowOps = <<>>
    /\ invoked = {}
    /\ selectClicks = 0 /\ placeClicks = 0 /\ scrollCalls = 0
    /\ placements = <<>> /\ trace = <<>>
    /\ printed = {}
    /\ exit_status = None

-----------------------------------------------------------------------------
(* place_objects, lines 137-154 *)

\* the check of lines 67-71 forgotten: a None location is returned
LocateAnchorNoNoneCheck ==
    /\ pc = "locate"
    /\ IF cfg.dry_run
       THEN /\ anchor' = <<0, 0>>
            /\ anchor_outcome' = "dry_run"
            /\ pc' = "setup"
            /\ invoked' = invoked
       ELSE \E outcome \in AnchorOutcomes, box \in AnchorBoxes :
            /\ invoked' = IF outcome = "missing" THEN invoked
                          ELSE invoked \cup {"locateOnScreen"}
            /\ anchor' = IF outcome = "found" THEN box ELSE anchor
            /\ anchor_outcome' = outcome
            /\ pc' = IF outcome = "missing" THEN "RuntimeError" ELSE "setup"
    /\ UNCHANGED <<cfg, list_start_x, list_start_y, placement_origin, screen_height,
                   visible_rows, loopVars, localVars, rowVars,
                   selectClicks, placeClicks, scrollCalls, placements, trace, printed, exit_status>>

LocateAnchor ==
    /\ pc = "locate"
    /\ IF cfg.dry_run
       THEN /\ anchor' = <<0, 0>>
            /\ anchor_outcome' = "dry_run"
            /\ pc' = "setup"
            /\ invoked' = invoked
       ELSE \E outcome \in AnchorOutcomes, box \in AnchorBoxes :
            /\ invoked' = IF outcome = "missing" THEN invoked
                          ELSE invoked \cup {"locateOnScreen"}
            /\ anchor' = IF outcome = "found" THEN box ELSE anchor
            /\ anchor_outcome' = outcome
            /\ pc' = IF outcome = "found" THEN "setup" ELSE "RuntimeError"
    /\ UNCHANGED <<cfg, list_start_x, list_start_y, placement_origin, screen_height,
                   visible_rows, loopVars, localVars, rowVars,
                   selectClicks, placeClicks, scrollCalls, placements, trace, printed, exit_status>>

Setup ==
    /\ pc = "setup"
    /\ \E pos \in PointerPositions, size \in SizeOutcomes :
        LET lsy == anchor[2] + cfg.list_offset_y
            askPos == ~TruthyTuple(cfg.placement_origin)
            askSize == ~TruthyInt(cfg.screen_height)
            sh == IF askSize THEN SafeScreenHeight(size) ELSE cfg.screen_height[1]
        IN  /\ list_start_x' = anchor[1] + cfg.list_offset_x
            /\ list_start_y' = lsy
            /\ placement_origin' = IF askPos THEN pos ELSE cfg.placement_origin
            /\ screen_height' = sh
            /\ visible_rows' = VisibleRows(sh, lsy, cfg.row_height)
            /\ invoked' = invoked \cup (IF askPos THEN {"position"} ELSE {})
                                  \cup (IF askSize THEN {"size"} ELSE {})
    /\ scroll_rows_consumed' = 0 /\ placed' = 0 /\ index' = 0
    /\ pc' = "while"
    /\ UNCHANGED <<cfg, anchor, anchor_outcome, localVars, rowVars,
                   selectClicks, placeClicks, scrollCalls, placements, trace, printed, exit_status>>

-----------------------------------------------------------------------------
(* place_objects, the loop, lines 156-197 *)

While ==
    /\ pc = "while"
    /\ IF LoopGuard(cfg, placed)
       THEN /\ index < visible_rows + MaxExtraRows
            /\ pc' = "view"
       ELSE pc' = "returned"
    /\ catSample' = "none" /\ itemSample' = "none" /\ classification' = "None"
    /\ rowOps' = <<>>
    /\ UNCHANGED <<cfg, setupVars, loopVars, localVars, histVars, exit_status>>

EnsureVisible ==
    /\ pc = "view"
    /\ LET riv == index - scroll_rows_consumed
       IN  /\ row_in_view' = riv
           /\ IF riv >= visible_rows
              THEN /\ rows_to_scroll' = RowsToScroll(riv, visible_rows)
                   /\ scroll_amount' = ScrollAmount(cfg, RowsToScroll(riv, visible_rows))
                   /\ pc' = IF cfg.dry_run THEN "scroll_account" ELSE "scroll"
              ELSE /\ UNCHANGED <<rows_to_scroll, scroll_amount>>
                   /\ pc' = "list_pos"
    /\ UNCHANGED <<cfg, setupVars, loopVars, list_pos, col, row, world_pos, rowVars,
                   histVars, exit_status>>

Scroll ==
    /\ pc = "scroll"
    /\ invoked' = invoked \cup {"scroll"}
    /\ scrollCalls' = scrollCalls + 1
    /\ rowOps' = Append(rowOps, Op("scroll", <<scroll_amount, list_start_x, list_start_y>>))
    /\ pc' = "scroll_sleep"
    /\ UNCHANGED <<cfg, setupVars, loopVars, localVars, catSample, itemSample, classification,
                   selectClicks, placeClicks, placements, trace, printed, exit_status>>

ScrollSleep ==
    /\ pc = "scroll_sleep"
    /\ rowOps' = Append(rowOps, Op("sleep", <<"scroll_delay">>))
    /\ pc' = "scroll_account"
    /\ UNCHANGED <<cfg, setupVars, loopVars, localVars, catSample, itemSample, classification, histVars, exit_status>>

\* the scrolled rows are not added to the count
ScrollAccountForgets ==
    /\ pc = "scroll_account"
    /\ row_in_view' = index - scroll_rows_consumed
    /\ pc' = "list_pos"
    /\ UNCHANGED <<cfg, setupVars, loopVars, rows_to_scroll, scroll_amount,
                   list_pos, col, row, world_pos, rowVars, histVars, exit_status>>

ScrollAccount ==
    /\ pc = "scroll_account"
    /\ scroll_rows_consumed' = scroll_rows_consumed + rows_to_scroll
    /\ row_in_view' = index - (scroll_rows_consumed + rows_to_scroll)
    /\ pc' = "list_pos"
    /\ UNCHANGED <<cfg, setupVars, placed, index, rows_to_scroll, scroll_amount,
                   list_pos, col, row, world_pos, rowVars, histVars, exit_status>>

ComputeListPos ==
    /\ pc = "list_pos"
    /\ list_pos' = ListPos(list_start_x, list_start_y, row_in_view, cfg)
    /\ pc' = "category"
    /\ UNCHANGED <<cfg, setupVars, loopVars, row_in_view, rows_to_scroll,
                   scroll_amount, col, row, world_pos, rowVars, histVars, exit_status>>

\* the continue of line 171 forgotten: a category row falls through
CategoryCheckNoContinue ==
    /\ pc = "category"
    /\ IF cfg.dry_run
       THEN /\ pc' = "item"
            /\ UNCHANGED <<index, catSample, classification, rowOps, invoked>>
       ELSE \E sample \in SampleOutcomes :
            LET isCat == IsCategoryRow(cfg, sample)
            IN  /\ catSample' = SampleKind(CategorySamples(cfg), sample, cfg.category_color,
                                             cfg.category_color_tolerance)
                /\ invoked' = IF CategorySamples(cfg)
                              THEN invoked \cup {"pixelMatchesColor"} ELSE invoked
                /\ rowOps' = IF CategorySamples(cfg)
                             THEN Append(rowOps, Op("pixelMatchesColor", CategorySamplePos(list_pos, cfg)))
                             ELSE rowOps
                /\ IF isCat
                   THEN /\ classification' = "Category"
                        /\ index' = index + 1
                        /\ pc' = "item"
                   ELSE /\ UNCHANGED <<classification, index>>
                        /\ pc' = "item"
    /\ UNCHANGED <<cfg, setupVars, scroll_rows_consumed, placed, localVars, itemSample,
                   selectClicks, placeClicks, scrollCalls, placements, trace, printed, exit_status>>

CategoryCheck ==
    /\ pc = "category"
    /\ IF cfg.dry_run
       THEN /\ pc' = "item"
            /\ UNCHANGED <<index, catSample, classification, rowOps, invoked>>
       ELSE \E sample \in SampleOutcomes :
            LET isCat == IsCategoryRow(cfg, sample)
            IN  /\ catSample' = SampleKind(CategorySamples(cfg), sample, cfg.category_color,
                                             cfg.category_color_tolerance)
                /\ invoked' = IF CategorySamples(cfg)
                              THEN invoked \cup {"pixelMatchesColor"} ELSE invoked
                /\ rowOps' = IF CategorySamples(cfg)
                             THEN Append(rowOps, Op("pixelMatchesColor", CategorySamplePos(list_pos, cfg)))
                             ELSE rowOps
                /\ IF isCat
                   THEN /\ classification' = "Category"
                        /\ index' = index + 1
                        /\ pc' = "while"
                   ELSE /\ UNCHANGED <<classification, index>>
                        /\ pc' = "item"
    /\ UNCHANGED <<cfg, setupVars, scroll_rows_consumed, placed, localVars, itemSample,
                   selectClicks, placeClicks, scrollCalls, placements, trace, printed, exit_status>>

\* the dry-run test of line 173 forgotten: a dry run samples the item pixel
ItemCheckInDryRun ==
    /\ pc = "item"
    /\ \E sample \in SampleOutcomes :
            LET hasItem == RowHasItemColor(cfg, sample)
            IN  /\ itemSample' = SampleKind(ItemSamples(cfg), sample, cfg.item_color,
                                              cfg.item_color_tolerance)
                /\ invoked' = IF ItemSamples(cfg)
                              THEN invoked \cup {"pixelMatchesColor"} ELSE invoked
                /\ rowOps' = IF ItemSamples(cfg)
                             THEN Append(rowOps, Op("pixelMatchesColor", ItemSamplePos(list_pos, cfg)))
                             ELSE rowOps
                /\ IF ~hasItem
                   THEN /\ classification' = "MissingItemSignal"
                        /\ printed' = printed \cup {"Skipping row"}
                        /\ index' = index + 1
                        /\ pc' = "while"
                   ELSE /\ classification' = "Valid"
                        /\ UNCHANGED <<index, printed>>
                        /\ pc' = "plan"
    /\ UNCHANGED <<cfg, setupVars, scroll_rows_consumed, placed, localVars, catSample,
                   selectClicks, placeClicks, scrollCalls, placements, trace, exit_status>>

ItemCheck ==
    /\ pc = "item"
    /\ IF cfg.dry_run
       THEN /\ pc' = "plan"
            /\ classification' = "Valid"
            /\ UNCHANGED <<index, itemSample, rowOps, invoked, printed>>
       ELSE \E sample \in SampleOutcomes :
            LET hasItem == RowHasItemColor(cfg, sample)
            IN  /\ itemSample' = SampleKind(ItemSamples(cfg), sample, cfg.item_color,
                                              cfg.item_color_tolerance)
                /\ invoked' = IF ItemSamples(cfg)
                              THEN invoked \cup {"pixelMatchesColor"} ELSE invoked
                /\ rowOps' = IF ItemSamples(cfg)
                             THEN Append(rowOps, Op("pixelMatchesColor", ItemSamplePos(list_pos, cfg)))
                             ELSE rowOps
                /\ IF ~hasItem
                   THEN /\ classification' = "MissingItemSignal"
                        /\ printed' = printed \cup {"Skipping row"}
                        /\ index' = index + 1
                        /\ pc' = "while"
                   ELSE /\ classification' = "Valid"
                        /\ UNCHANGED <<index, printed>>
                        /\ pc' = "plan"
    /\ UNCHANGED <<cfg, setupVars, scroll_rows_consumed, placed, localVars, catSample,
                   selectClicks, placeClicks, scrollCalls, placements, trace, exit_status>>

Plan ==
    /\ pc = "plan"
    /\ col' = Col(placed, cfg)
    /\ row' = Row(placed, cfg)
    /\ world_pos' = WorldPos(placement_origin, placed, cfg)
    /\ pc' = IF cfg.dry_run THEN "trace" ELSE "move_list"
    /\ UNCHANGED <<cfg, setupVars, loopVars, row_in_view, rows_to_scroll,
                   scroll_amount, list_pos, rowVars, histVars, exit_status>>

Trace ==
    /\ pc = "trace"
    /\ printed' = printed \cup {"Would click"}
    /\ trace' = Append(trace, <<list_pos, world_pos>>)
    /\ rowOps' = Append(rowOps, Op("print", <<list_pos, world_pos>>))
    /\ pc' = "inc_placed"
    /\ UNCHANGED <<cfg, setupVars, loopVars, localVars, catSample, itemSample, classification,
                   invoked, selectClicks, placeClicks, scrollCalls, placements, exit_status>>

MoveToList ==
    /\ pc = "move_list"
    /\ invoked' = invoked \cup {"moveTo"}
    /\ rowOps' = Append(rowOps, Op("moveTo", list_pos))
    /\ pc' = "click_select"
    /\ UNCHANGED <<cfg, setupVars, loopVars, localVars, catSample, itemSample, classification,
                   selectClicks, placeClicks, scrollCalls, placements, trace, printed, exit_status>>

\* a double click selects the row: two clicks for one placement
ClickSelectDouble ==
    /\ pc = "click_select"
    /\ invoked' = invoked \cup {"click"}
    /\ selectClicks' = selectClicks + 2
    /\ rowOps' = Append(rowOps, Op("click", <<>>))
    /\ pc' = "sleep_click"
    /\ UNCHANGED <<cfg, setupVars, loopVars, localVars, catSample, itemSample, classification,
                   placeClicks, scrollCalls, placements, trace, printed, exit_status>>

ClickSelect ==
    /\ pc = "click_select"
    /\ invoked' = invoked \cup {"click"}
    /\ selectClicks' = selectClicks + 1
    /\ rowOps' = Append(rowOps, Op("click", <<>>))
    /\ pc' = "sleep_click"
    /\ UNCHANGED <<cfg, setupVars, loopVars, localVars, catSample, itemSample, classification,
                   placeClicks, scrollCalls, placements, trace, printed, exit_status>>

\* the moveTo of line 192 forgotten: the place click lands on the list row
SleepClickSkipsMove ==
    /\ pc = "sleep_click"
    /\ rowOps' = Append(rowOps, Op("sleep", <<"click_delay">>))
    /\ pc' = "click_place"
    /\ UNCHANGED <<cfg, setupVars, loopVars, localVars, catSample, itemSample, classification, histVars, exit_status>>

SleepClick ==
    /\ pc = "sleep_click"
    /\ rowOps' = Append(rowOps, Op("sleep", <<"click_delay">>))
    /\ pc' = "move_world"
    /\ UNCHANGED <<cfg, setupVars, loopVars, localVars, catSample, itemSample, classification, histVars, exit_status>>

MoveToWorld ==
    /\ pc = "move_world"
    /\ invoked' = invoked \cup {"moveTo"}
    /\ rowOps' = Append(rowOps, Op("moveTo", world_pos))
    /\ pc' = "click_place"
    /\ UNCHANGED <<cfg, setupVars, loopVars, localVars, catSample, itemSample, classification,
                   selectClicks, placeClicks, scrollCalls, placements, trace, printed, exit_status>>

ClickPlace ==
    /\ pc = "click_place"
    /\ invoked' = invoked \cup {"click"}
    /\ placeClicks' = placeClicks + 1
    /\ placements' = Append(placements, [col |-> col, row |-> row, pos |-> world_pos])
    /\ rowOps' = Append(rowOps, Op("click", <<>>))
    /\ pc' = "sleep_place"
    /\ UNCHANGED <<cfg, setupVars, loopVars, localVars, catSample, itemSample, classification,
                   selectClicks, scrollCalls, trace, printed, exit_status>>

SleepPlace ==
    /\ pc = "sleep_place"
    /\ rowOps' = Append(rowOps, Op("sleep", <<"place_delay">>))
    /\ pc' = "inc_placed"
    /\ UNCHANGED <<cfg, setupVars, loopVars, localVars, catSample, itemSample, classification, histVars, exit_status>>

IncPlaced ==
    /\ pc = "inc_placed"
    /\ placed' = placed + 1
    /\ rowOps' = Append(rowOps, Op("+= 1", <<"placed">>))
    /\ pc' = "inc_index"
    /\ UNCHANGED <<cfg, setupVars, scroll_rows_consumed, index, localVars, catSample, itemSample, classification,
                   histVars, exit_status>>

IncIndex ==
    /\ pc = "inc_index"
    /\ index' = index + 1
    /\ rowOps' = Append(rowOps, Op("+= 1", <<"index">>))
    /\ pc' = "while"
    /\ UNCHANGED <<cfg, setupVars, scroll_rows_consumed, placed, localVars, catSample, itemSample, classification,
                   histVars, exit_status>>

-----------------------------------------------------------------------------
(* main, lines 320-330 *)

InPlaceObjects ==
    pc \in {"locate", "setup", "while", "view", "scroll", "scroll_sleep",
            "scroll_account", "list_pos", "category", "item", "plan", "trace",
            "move_list", "click_select", "sleep_click", "move_world",
            "click_place", "sleep_place", "inc_placed", "inc_index"}

\* Ctrl-C while place_objects runs
Interrupt ==
    /\ InPlaceObjects
    /\ pc' = "KeyboardInterrupt"
    /\ UNCHANGED <<cfg, setupVars, loopVars, localVars, rowVars, histVars, exit_status>>

\* the return 1 of line 326 forgotten: falls through to return 0
HandleKeyboardInterruptReturns0 ==
    /\ pc = "KeyboardInterrupt"
    /\ printed' = printed \cup {"Interrupted"}
    /\ exit_status' = Some(0)
    /\ pc' = "exited"
    /\ UNCHANGED <<cfg, setupVars, loopVars, localVars, rowVars,
                   invoked, selectClicks, placeClicks, scrollCalls, placements, trace>>

HandleKeyboardInterrupt ==
    /\ pc = "KeyboardInterrupt"
    /\ printed' = printed \cup {"Interrupted"}
    /\ exit_status' = Some(1)
    /\ pc' = "exited"
    /\ UNCHANGED <<cfg, setupVars, loopVars, localVars, rowVars,
                   invoked, selectClicks, placeClicks, scrollCalls, placements, trace>>

\* another status for the setup failure
HandleRuntimeErrorReturns2 ==
    /\ pc = "RuntimeError"
    /\ printed' = printed \cup {"ERROR"}
    /\ exit_status' = Some(2)
    /\ pc' = "exited"
    /\ UNCHANGED <<cfg, setupVars, loopVars, localVars, rowVars,
                   invoked, selectClicks, placeClicks, scrollCalls, placements, trace>>

HandleRuntimeError ==
    /\ pc = "RuntimeError"
    /\ printed' = printed \cup {"ERROR"}
    /\ exit_status' = Some(1)
    /\ pc' = "exited"
    /\ UNCHANGED <<cfg, setupVars, loopVars, localVars, rowVars,
                   invoked, selectClicks, placeClicks, scrollCalls, placements, trace>>

Return ==
    /\ pc = "returned"
    /\ exit_status' = Some(0)
    /\ pc' = "exited"
    /\ UNCHANGED <<cfg, setupVars, loopVars, localVars, rowVars, histVars>>

-----------------------------------------------------------------------------

Next ==
    \/ LocateAnchor \/ Setup \/ While \/ EnsureVisible
    \/ Scroll \/ ScrollSleep \/ ScrollAccount \/ ComputeListPos
    \/ CategoryCheck \/ ItemCheck \/ Plan \/ Trace
    \/ MoveToList \/ ClickSelect \/ SleepClick
    \/ MoveToWorld \/ ClickPlace \/ SleepPlace
    \/ IncPlaced \/ IncIndex
    \/ Interrupt \/ HandleKeyboardInterrupt \/ HandleRuntimeError \/ Return

Spec == Init /\ [][Next]_vars

\* what the program does by itself: every step but the interrupt
ProgramStep ==
    \/ LocateAnchor \/ Setup \/ While \/ EnsureVisible
    \/ Scroll \/ ScrollSleep \/ ScrollAccount \/ ComputeListPos
    \/ CategoryCheck \/ ItemCheck \/ Plan \/ Trace
    \/ MoveToList \/ ClickSelect \/ SleepClick
    \/ MoveToWorld \/ ClickPlace \/ SleepPlace
    \/ IncPlaced \/ IncIndex
    \/ HandleKeyboardInterrupt \/ HandleRuntimeError \/ Return

\* the configurations of the runs checked for progress
LiveConfigs ==
    { MkConfig(dry, lim, cat, DefaultItemColor, req, <<0, 0>>, geo, grid) :
        dry \in BOOLEAN, lim \in {None, Some(0), Some(2)},
        cat \in {None, CategoryColor}, req \in BOOLEAN,
        geo \in {g \in Geometries : g.screen_height \in {Some(100), Some(30)}},
        grid \in {g \in Grids : g.per_row = 2 /\ g.spacing_pixels = 3} }

InitLive == Init /\ cfg \in LiveConfigs

\* the program is sequential and every call and sleep of it returns, so a
\* step that can be taken is taken; the interrupt may never come
SpecLive == InitLive /\ [][Next]_vars /\ WF_vars(ProgramStep)

-----------------------------------------------------------------------------
(* Positions of the control flow *)

\* a row has been brought into view and is being classified or acted on
RowPcs == {"list_pos", "category", "item", "plan", "trace", "move_list",
           "click_select", "sleep_click", "move_world", "click_place",
           "sleep_place", "inc_placed", "inc_index"}
\* a row has been found Valid and is being placed, placed not yet incremented
PlacingPcs == {"plan", "trace", "move_list", "click_select", "sleep_click",
               "move_world", "click_place", "sleep_place", "inc_placed"}
\* inside the loop body, before placed is incremented
BodyPcs == {"view", "scroll", "scroll_sleep", "scroll_account"} \cup (RowPcs \ {"inc_index"})

-----------------------------------------------------------------------------
(* C1: whenever a row is classified or acted on, row_in_view is            *)
(* index - scroll_rows_consumed and lies in [0, visible_rows); and         *)
(* scroll_rows_consumed never decreases.                                   *)

C1_RowInView ==
    pc \in RowPcs =>
        /\ row_in_view = index - scroll_rows_consumed
        /\ 0 <= row_in_view /\ row_in_view < visible_rows
        /\ visible_rows >= 1

C1_ScrollerInvariant ==
    /\ []C1_RowInView
    /\ [][scroll_rows_consumed' >= scroll_rows_consumed]_vars

\* a row clicked after two scrolls and at least one skipped row
C1_Witness ==
    /\ pc = "click_select" /\ scroll_rows_consumed >= 2 /\ placed < index
    /\ row_in_view = visible_rows - 1

-----------------------------------------------------------------------------
(* C2: with a limit L >= 0, placed never exceeds L, the loop body runs     *)
(* only while placed < L, the loop is left exactly when placed = L, and no *)
(* select or place click is issued once placed = L, however many rows were *)
(* skipped.                                                                *)

C2_LimitState ==
    (cfg.limit # None /\ cfg.limit[1] >= 0) =>
        /\ placed <= cfg.limit[1]
        /\ pc \in BodyPcs => placed < cfg.limit[1]
        /\ pc = "returned" => placed = cfg.limit[1]
        /\ exit_status = Some(0) => placed = cfg.limit[1]
        /\ selectClicks <= cfg.limit[1] /\ placeClicks <= cfg.limit[1]

C2_LimitStep ==
    (cfg.limit # None /\ cfg.limit[1] >= 0 /\ placed = cfg.limit[1]) =>
        /\ selectClicks' = selectClicks /\ placeClicks' = placeClicks
        /\ placed' = placed
        /\ pc = "while" => pc' \in {"returned", "KeyboardInterrupt"}

C2_StopsAtLimit == []C2_LimitState /\ [][C2_LimitStep]_vars

\* the loop left at the limit of 2 after skipped rows, in a real run
C2_Witness ==
    /\ pc = "returned" /\ cfg.limit = Some(2) /\ ~cfg.dry_run
    /\ placed = 2 /\ index > placed /\ placeClicks = 2

-----------------------------------------------------------------------------
(* C3: a row one of whose pixel samples raised is skipped: it never        *)
(* reaches placement (no click, placed unchanged), in every configuration. *)

C3_FailureSkipsRow ==
    (catSample = "error" \/ itemSample = "error") =>
        pc \notin (PlacingPcs \cup {"inc_index"})

-----------------------------------------------------------------------------
(* C4: in a dry run no pyautogui operation is ever invoked.                *)

C4_DryRunNoCalls == cfg.dry_run => invoked = {}

-----------------------------------------------------------------------------
(* C5: a row whose category pixel matches is classified Category and       *)
(* skipped without placement, whatever the item-color configuration, and   *)
(* its item-color pixel is not sampled.                                    *)

C5_CategoryState ==
    catSample = "match" =>
        /\ classification = "Category"
        /\ itemSample = "none"
        /\ pc \in {"while", "KeyboardInterrupt", "exited"}

C5_CategoryStep ==
    (pc = "category" /\ catSample' = "match") =>
        /\ pc' = "while" /\ index' = index + 1 /\ placed' = placed
        /\ selectClicks' = selectClicks /\ placeClicks' = placeClicks

C5_CategoryShortCircuits == []C5_CategoryState /\ [][C5_CategoryStep]_vars

\* a category row met with the item-color check switched off
C5_Witness ==
    /\ pc = "while" /\ catSample = "match" /\ classification = "Category"
    /\ cfg.item_color # None /\ ~cfg.require_item_color
    /\ index = 2 /\ placed = 1

-----------------------------------------------------------------------------
(* C6: with require_item_color false no row is classified                  *)
(* MissingItemSignal, the item pixel is not sampled, no "Skipping row"     *)
(* line is printed, and every row that is not Category goes on to be       *)
(* placed.                                                                 *)

C6_NeverMissingState ==
    ~cfg.require_item_color =>
        /\ classification # "MissingItemSignal"
        /\ itemSample = "none"
        /\ "Skipping row" \notin printed

C6_NeverMissingStep ==
    (~cfg.require_item_color /\ pc = "item" /\ pc' # "KeyboardInterrupt") =>
        /\ pc' = "plan" /\ classification' = "Valid" /\ index' = index

C6_NeverMissingItemSignal == []C6_NeverMissingState /\ [][C6_NeverMissingStep]_vars

\* a row that is not Category being placed in a real run, item color configured
C6_Witness ==
    /\ ~cfg.require_item_color /\ cfg.item_color # None /\ ~cfg.dry_run
    /\ pc = "click_place" /\ catSample = "nomatch" /\ classification = "Valid"

-----------------------------------------------------------------------------
(* C7: the step that classifies a row Category or MissingItemSignal        *)
(* advances index by exactly 1 and changes nothing else of the run: placed, *)
(* the scroll state and the clicks stay, no moveTo or click is invoked,    *)
(* and the loop goes on to the next row.                                   *)

Skipped == classification \in {"Category", "MissingItemSignal"}

C7_SkipStep ==
    (~Skipped /\ Skipped') =>
        /\ index' = index + 1
        /\ placed' = placed
        /\ scroll_rows_consumed' = scroll_rows_consumed
        /\ selectClicks' = selectClicks /\ placeClicks' = placeClicks
        /\ scrollCalls' = scrollCalls /\ placements' = placements
        /\ (invoked' \ invoked) \subseteq {"pixelMatchesColor"}
        /\ exit_status' = exit_status
        /\ pc' = "while"

C7_RunContinues ==
    (Skipped /\ pc = "while") => LoopGuard(cfg, placed)

C7_SkipChangesOnlyIndex == [][C7_SkipStep]_vars /\ []C7_RunContinues

\* a row skipped for its item color after one placement and one earlier skip
C7_Witness ==
    /\ pc = "while" /\ classification = "MissingItemSignal" /\ ~cfg.dry_run
    /\ placed = 1 /\ index = 3 /\ cfg.limit = Some(2)

-----------------------------------------------------------------------------
(* C8: the world position planned at placed-count n, and clicked as the    *)
(* (n+1)-th placement, is origin + ((n mod per_row) * spacing,             *)
(* (n div per_row) * spacing), whatever index, scroll state and skipped    *)
(* rows are; with per_row 15, spacing 120, origin (0,0) the placement at   *)
(* n = 16 is at (120,120).                                                 *)

PlannerFormula(n) ==
    <<placement_origin[1] + (n % cfg.per_row) * cfg.spacing_pixels,
      placement_origin[2] + (n \div cfg.per_row) * cfg.spacing_pixels>>

IsScenarioA ==
    /\ cfg.per_row = 15 /\ cfg.spacing_pixels = 120 /\ placement_origin = <<0, 0>>

C8_PlannerFormula ==
    /\ pc \in (PlacingPcs \ {"plan"}) => world_pos = PlannerFormula(placed)
    /\ \A i \in DOMAIN placements : placements[i].pos = PlannerFormula(i - 1)
    /\ (IsScenarioA /\ pc \in (PlacingPcs \ {"plan"}) /\ placed = 16) =>
            world_pos = <<120, 120>>

\* the 17th placement of scenario A clicked after four skipped rows
C8_Witness ==
    /\ IsScenarioA /\ pc = "sleep_place" /\ placed = 16 /\ index = 20
    /\ Len(placements) = 17 /\ placements[17].pos = <<120, 120>>

-----------------------------------------------------------------------------
(* C9: the column of every placement lies in [0, per_row), the grid row    *)
(* is one more than per_row placements earlier, placed-count n is          *)
(* row * per_row + col, and no two placements of a run share a position.   *)

C9_ColumnsAndRows ==
    /\ pc \in (PlacingPcs \ {"plan"}) =>
            /\ 0 <= col /\ col < cfg.per_row
            /\ placed = row * cfg.per_row + col
    /\ \A i \in DOMAIN placements :
            /\ 0 <= placements[i].col /\ placements[i].col < cfg.per_row
            /\ i - 1 = placements[i].row * cfg.per_row + placements[i].col
            /\ i > cfg.per_row =>
                    placements[i].row = placements[i - cfg.per_row].row + 1

C9_PositionsDistinct ==
    \A i, j \in DOMAIN placements :
        i # j => placements[i].pos # placements[j].pos

-----------------------------------------------------------------------------
(* C10: visible_rows is max(1, floor((screen_height - list_start_y) /      *)
(* row_height)), at least 1 also when list_start_y >= screen_height; with  *)
(* row_height 26, list_start_y 40, screen_height 1080 it is 40, indices    *)
(* 0..39 scroll nothing and index 40 gives exactly one scroll, of one row. *)

SetUpPcs == {"while", "view", "scroll", "scroll_sleep", "scroll_account", "returned"}
               \cup RowPcs

IsScenarioB ==
    /\ cfg.row_height = 26 /\ list_start_y = 40 /\ screen_height = 1080

C10_Capacity ==
    pc \in SetUpPcs =>
        LET d == screen_height - list_start_y
            rh == cfg.row_height
        IN  /\ visible_rows >= 1
            /\ visible_rows = Max(1, d \div rh)
            /\ IF d >= rh
               THEN visible_rows * rh <= d /\ d < (visible_rows + 1) * rh
               ELSE visible_rows = 1

C10_ScenarioB ==
    (IsScenarioB /\ pc \in SetUpPcs) =>
        /\ visible_rows = 40
        /\ index <= 39 => (scrollCalls = 0 /\ scroll_rows_consumed = 0)
        /\ (index = 40 /\ pc \in RowPcs) =>
                /\ rows_to_scroll = 1 /\ scroll_rows_consumed = 1
                /\ scroll_amount = -3
                /\ ~cfg.dry_run => scrollCalls = 1

C10_VisibleRowCapacity == C10_Capacity /\ C10_ScenarioB

\* row 40 of scenario B in view after its one scroll, in a real run
C10_Witness ==
    /\ IsScenarioB /\ ~cfg.dry_run /\ pc = "category" /\ index = 40
    /\ scrollCalls = 1 /\ rows_to_scroll = 1 /\ row_in_view = 39

-----------------------------------------------------------------------------
(* C11: when the anchor image is missing or is not found on screen, the    *)
(* run aborts before the loop: no scroll, pointer move, click, pixel read, *)
(* pointer or screen query is made, the iteration state is still the       *)
(* initial one, and main prints ERROR and returns 1.                       *)

AnchorFailed == anchor_outcome \in {"missing", "not_found"}

C11_SetupFailureFatal ==
    AnchorFailed =>
        /\ pc \in {"RuntimeError", "exited"}
        /\ invoked \subseteq {"locateOnScreen"}
        /\ anchor_outcome = "missing" => invoked = {}
        /\ index = 0 /\ placed = 0 /\ scroll_rows_consumed = 0
        /\ visible_rows = 0
        /\ selectClicks = 0 /\ placeClicks = 0 /\ scrollCalls = 0
        /\ placements = <<>> /\ rowOps = <<>> /\ trace = <<>>
        /\ pc = "exited" => (exit_status = Some(1) /\ printed = {"ERROR"})

\* the anchor was looked for and not found, and main has returned
C11_Witness ==
    /\ anchor_outcome = "not_found" /\ pc = "exited" /\ exit_status = Some(1)
    /\ invoked = {"locateOnScreen"}

-----------------------------------------------------------------------------
(* C12: once a KeyboardInterrupt has been raised in place_objects, at      *)
(* whatever point of the loop, no further scroll, pointer move, click or   *)
(* pixel read is issued, index, placed and scroll_rows_consumed stay as    *)
(* they were (no rollback), and main returns 1.                            *)

Interrupted == pc = "KeyboardInterrupt" \/ "Interrupted" \in printed

C12_AfterInterruptStep ==
    (Interrupted \/ Interrupted') =>
        /\ invoked' = invoked
        /\ selectClicks' = selectClicks /\ placeClicks' = placeClicks
        /\ scrollCalls' = scrollCalls
        /\ placements' = placements /\ rowOps' = rowOps /\ trace' = trace
        /\ loopVars' = loopVars

C12_InterruptStatus ==
    /\ pc = "KeyboardInterrupt" => exit_status = None
    /\ "Interrupted" \in printed => (pc = "exited" /\ exit_status = Some(1))

C12_InterruptStops == [][C12_AfterInterruptStep]_vars /\ []C12_InterruptStatus

\* interrupted between the select click and the place click of the second
\* placement, after a scroll
C12_Witness ==
    /\ "Interrupted" \in printed /\ exit_status = Some(1)
    /\ selectClicks = 2 /\ placeClicks = 1 /\ placed = 1 /\ scrollCalls = 1

-----------------------------------------------------------------------------
(* C13: main returns 0 exactly when place_objects returned, which it does  *)
(* only with a limit and placed >= limit, and 1 exactly when the run ended  *)
(* by KeyboardInterrupt or by the RuntimeError of locate_anchor; it        *)
(* returns nothing else.                                                   *)

C13_StatusState ==
    /\ exit_status \in {None, Some(0), Some(1)}
    /\ pc = "exited" <=> exit_status # None
    /\ exit_status = Some(0) <=>
            (pc = "exited" /\ ~AnchorFailed /\ "Interrupted" \notin printed)
    /\ exit_status = Some(1) <=>
            (pc = "exited" /\ (AnchorFailed \/ "Interrupted" \in printed))
    /\ exit_status = Some(0) => ~LoopGuard(cfg, placed)
    /\ pc = "returned" => ~LoopGuard(cfg, placed)

C13_StatusStep ==
    exit_status' # exit_status =>
        \/ pc = "returned" /\ exit_status' = Some(0)
        \/ pc = "KeyboardInterrupt" /\ exit_status' = Some(1)
        \/ pc = "RuntimeError" /\ exit_status' = Some(1)

C13_ExitStatusMapping == []C13_StatusState /\ [][C13_StatusStep]_vars

\* a real run that reached its limit of 2 after skipped rows and returned 0
C13_Witness ==
    /\ exit_status = Some(0) /\ ~cfg.dry_run /\ cfg.limit = Some(2)
    /\ placeClicks = 2 /\ index > 2

-----------------------------------------------------------------------------
(* C14: two dry runs of the same configuration print the same trace lines  *)
(* in the same order and end with the same placed-count.                   *)

\* the first n trace lines of a dry run, from iteration idx on, given what
\* its setup resolved: lines 156-197 with dry_run true
RECURSIVE DryRunLines(_, _, _, _, _, _)
DryRunLines(c, origin, vis, idx, scr, n) ==
    IF n = 0 THEN <<>>
    ELSE LET riv0 == idx - scr
             scr1 == IF riv0 >= vis THEN scr + RowsToScroll(riv0, vis) ELSE scr
             lp == ListPos(c.list_offset_x, c.list_offset_y, idx - scr1, c)
             wp == WorldPos(origin, idx, c)
         IN  <<<<lp, wp>>>> \o DryRunLines(c, origin, vis, idx + 1, scr1, n - 1)

\* another dry run of configuration c, in which pyautogui.position() gives
\* pos and pyautogui.size() gives size: lines 137-154, then the loop
OtherDryRun(c, pos, size, n) ==
    LET origin == IF TruthyTuple(c.placement_origin) THEN c.placement_origin ELSE pos
        sh == IF TruthyInt(c.screen_height) THEN c.screen_height[1]
              ELSE SafeScreenHeight(size)
    IN  DryRunLines(c, origin, VisibleRows(sh, c.list_offset_y, c.row_height), 0, 0, n)

\* lines 137-154 have run: visible_rows is at least 1 from then on
SetupDone == visible_rows # 0

\* the lines of this dry run are those DryRunLines gives for its own setup
DryRunTraceOfSetup ==
    (cfg.dry_run /\ SetupDone) =>
        /\ list_start_x = cfg.list_offset_x /\ list_start_y = cfg.list_offset_y
        /\ trace = DryRunLines(cfg, placement_origin, visible_rows, 0, 0, Len(trace))

C14_DryRunDeterminism ==
    (cfg.dry_run /\ SetupDone) =>
        /\ \A pos \in PointerPositions, size \in SizeOutcomes :
                OtherDryRun(cfg, pos, size, Len(trace)) = trace
        /\ pc = "returned" => ~LoopGuard(cfg, placed)

-----------------------------------------------------------------------------
(* C15: for a Valid row of a real run, what follows the scroll and the     *)
(* pixel reads of the iteration is, in this order and with nothing in      *)
(* between: moveTo the row position, click, sleep click_delay, moveTo the  *)
(* world position, click, sleep place_delay, placed += 1, index += 1; so a *)
(* place click always directly follows the select click, its sleep and the *)
(* move of the same row.                                                   *)

IsPrefix(a, b) == Len(a) <= Len(b) /\ a = SubSeq(b, 1, Len(a))

\* what an iteration does before it acts on the row
IsPreOp(o) ==
    \/ o.op \in {"scroll", "pixelMatchesColor"}
    \/ o.op = "sleep" /\ o.args = <<"scroll_delay">>

PreLen(ops) == Cardinality({i \in DOMAIN ops : IsPreOp(ops[i])})
PlacingOps(ops) == SubSeq(ops, PreLen(ops) + 1, Len(ops))

ExpectedPlacingOps ==
    << Op("moveTo", ListPos(list_start_x, list_start_y, row_in_view, cfg)),
       Op("click", <<>>),
       Op("sleep", <<"click_delay">>),
       Op("moveTo", PlannerFormula(Len(placements) - (IF Len(PlacingOps(rowOps)) >= 5 THEN 1 ELSE 0))),
       Op("click", <<>>),
       Op("sleep", <<"place_delay">>),
       Op("+= 1", <<"placed">>),
       Op("+= 1", <<"index">>) >>

\* how many of them are done at each position
PlacingDone ==
    [p \in {"plan", "move_list", "click_select", "sleep_click", "move_world",
            "click_place", "sleep_place", "inc_placed", "inc_index", "while"} |->
        CASE p \in {"plan", "move_list"} -> 0
          [] p = "click_select" -> 1
          [] p = "sleep_click" -> 2
          [] p = "move_world" -> 3
          [] p = "click_place" -> 4
          [] p = "sleep_place" -> 5
          [] p = "inc_placed" -> 6
          [] p = "inc_index" -> 7
          [] p = "while" -> 8]

C15_PlacementOrder ==
    (~cfg.dry_run /\ classification = "Valid") =>
        /\ \A i \in 1..PreLen(rowOps) : IsPreOp(rowOps[i])
        /\ IsPrefix(PlacingOps(rowOps), ExpectedPlacingOps)
        /\ pc \in DOMAIN PlacingDone => Len(PlacingOps(rowOps)) = PlacingDone[pc]
        /\ selectClicks = Len(placements) + (IF Len(PlacingOps(rowOps)) \in 2..4 THEN 1 ELSE 0)

\* the second placement complete, after a scroll and both pixel reads
C15_Witness ==
    /\ ~cfg.dry_run /\ classification = "Valid" /\ pc = "while"
    /\ Len(rowOps) = 12 /\ placed = 2 /\ rowOps[1].op = "scroll"
    /\ PlacingOps(rowOps) = ExpectedPlacingOps

-----------------------------------------------------------------------------
(* C16: in a real run an iteration scrolls exactly when                    *)
(* index - scroll_rows_consumed >= visible_rows at its start, and then     *)
(* once: scroll(-(scroll_clicks_per_row * rows_to_scroll)) at              *)
(* (list_start_x, list_start_y) is the first thing it does, the sleep of   *)
(* scroll_delay the second, before any pixel read or click, and            *)
(* scroll_rows_consumed grows by rows_to_scroll; the amount is negative    *)
(* whenever scroll_clicks_per_row > 0.                                     *)

ScrollOps(ops) == {i \in DOMAIN ops : ops[i].op = "scroll"}

C16_ScrollState ==
    ~cfg.dry_run =>
        /\ Cardinality(ScrollOps(rowOps)) <= 1
        /\ ScrollOps(rowOps) # {} =>
            /\ rowOps[1] = Op("scroll", <<-(cfg.scroll_clicks_per_row * rows_to_scroll),
                                          list_start_x, list_start_y>>)
            /\ rows_to_scroll >= 1
            /\ cfg.scroll_clicks_per_row > 0 => rowOps[1].args[1] < 0
            /\ Len(rowOps) >= 2 => rowOps[2] = Op("sleep", <<"scroll_delay">>)
            /\ pc \in RowPcs => Len(rowOps) >= 2
        /\ pc = "scroll_sleep" => rowOps = <<rowOps[1]>>
        /\ scrollCalls = scroll_rows_consumed
                + (IF pc \in {"scroll_sleep", "scroll_account"} THEN 1 ELSE 0)
            \/ pc \in {"KeyboardInterrupt", "exited"}

C16_ScrollStep ==
    ~cfg.dry_run =>
        /\ (pc = "view" /\ pc' # "KeyboardInterrupt") =>
                IF index - scroll_rows_consumed >= visible_rows
                THEN /\ pc' = "scroll"
                     /\ rows_to_scroll' = (index - scroll_rows_consumed) - visible_rows + 1
                ELSE pc' = "list_pos" /\ rowOps' = <<>>
        /\ (pc = "scroll" /\ pc' # "KeyboardInterrupt") =>
                /\ pc' = "scroll_sleep" /\ scrollCalls' = scrollCalls + 1
                /\ scroll_rows_consumed' = scroll_rows_consumed
        /\ (pc = "scroll_account" /\ pc' # "KeyboardInterrupt") =>
                /\ scroll_rows_consumed' = scroll_rows_consumed + rows_to_scroll
                /\ scrollCalls' = scrollCalls
                /\ Len(rowOps) = 2
        /\ scrollCalls' # scrollCalls => pc = "scroll"

C16_ScrollOnceDownward == []C16_ScrollState /\ [][C16_ScrollStep]_vars

\* the second scroll of a run done and slept on, the row about to be sampled
C16_Witness ==
    /\ ~cfg.dry_run /\ pc = "category" /\ scroll_rows_consumed = 2
    /\ rowOps = << Op("scroll", <<-3, list_start_x, list_start_y>>),
                   Op("sleep", <<"scroll_delay">>) >>

-----------------------------------------------------------------------------
(* C17: with no limit the loop never ends by itself: place_objects never   *)
(* returns and main never returns 0; unless it is interrupted, every       *)
(* iteration is followed by the next one, index growing by one each time   *)
(* (as far as the model follows the list); the run ends only by an         *)
(* interrupt or by the setup error.                                        *)

Stopped == pc \in {"KeyboardInterrupt", "RuntimeError", "exited"}

\* the loop head at the last row the model follows
AtHorizon == pc = "while" /\ index >= visible_rows + MaxExtraRows

C17_NeverReturns ==
    cfg.limit = None =>
        /\ pc # "returned"
        /\ exit_status # Some(0)
        /\ pc = "exited" => (AnchorFailed \/ "Interrupted" \in printed)

C17_NextRow(i) ==
    (cfg.limit = None /\ SetupDone /\ ~Stopped /\ index = i)
        ~> (index = i + 1 \/ Stopped \/ AtHorizon)

-----------------------------------------------------------------------------
Min(a, b) == IF a <= b THEN a ELSE b

(* C18, as stated: after the set-up, in every state,                        *)
(* scroll_rows_consumed = max(0, index - visible_rows + 1), and the row     *)
(* acted on is at row_in_view = min(index, visible_rows - 1).               *)

C18_ClosedFormInEveryState ==
    SetupDone =>
        /\ scroll_rows_consumed = Max(0, index - visible_rows + 1)
        /\ pc \in RowPcs => row_in_view = Min(index, visible_rows - 1)

(* C18, amended: a scroll is always of exactly one row; rows                *)
(* 0..visible_rows-1 are reached without a scroll and every later row       *)
(* with one; while the row at index is classified or acted on (after the    *)
(* scroll block, before index grows) scroll_rows_consumed is                *)
(* max(0, index - visible_rows + 1) and row_in_view is                      *)
(* min(index, visible_rows - 1); at the loop head and after the loop        *)
(* scroll_rows_consumed is max(0, index - visible_rows).                    *)

ScrollPcs == {"scroll", "scroll_sleep", "scroll_account"}

C18_ScrollState ==
    /\ pc \in ScrollPcs => (rows_to_scroll = 1 /\ index >= visible_rows)
    /\ pc \in RowPcs =>
        /\ scroll_rows_consumed = Max(0, index - visible_rows + 1)
        /\ row_in_view = Min(index, visible_rows - 1)
    /\ (SetupDone /\ pc \in {"while", "view", "returned"}) =>
        scroll_rows_consumed = Max(0, index - visible_rows)

C18_ScrollStep ==
    /\ (pc = "view" /\ pc' = "list_pos") => index < visible_rows
    /\ (pc = "view" /\ index >= visible_rows) =>
            pc' \in {"view", "scroll", "scroll_account", "KeyboardInterrupt"}
    /\ (pc = "scroll_account" /\ pc' = "list_pos") =>
            scroll_rows_consumed' = scroll_rows_consumed + 1
    /\ scroll_rows_consumed' \in {scroll_rows_consumed, scroll_rows_consumed + 1}

C18_ScrollClosedForm == []C18_ScrollState /\ [][C18_ScrollStep]_vars

\* the fourth row of a list of two visible rows, after two scrolls of one row
C18_Witness ==
    /\ pc = "category" /\ visible_rows = 2 /\ index = 3
    /\ scroll_rows_consumed = 2 /\ rows_to_scroll = 1 /\ row_in_view = 1

-----------------------------------------------------------------------------
(* C19, as stated: in a real run, interrupted or not, select clicks minus  *)
(* place clicks is 0 or 1, place clicks minus placed is 0 or 1, and        *)
(* placed <= index; when place_objects returns with a limit L, L select    *)
(* clicks and L place clicks have been issued and placed = L.              *)

C19_ClickBalance ==
    /\ selectClicks - placeClicks \in {0, 1}
    /\ placeClicks - placed \in {0, 1}

Completed == pc = "returned" \/ exit_status = Some(0)

C19_ClickAccountingAnyLimit ==
    ~cfg.dry_run =>
        /\ C19_ClickBalance
        /\ placed <= index
        /\ Completed =>
            /\ selectClicks = cfg.limit[1] /\ placeClicks = cfg.limit[1]
            /\ placed = cfg.limit[1]

(* C19, amended: the same, except that placed <= index holds outside the   *)
(* two increments that end a placement: between placed += 1 and            *)
(* index += 1, and after an interrupt there, placed may be index + 1; and  *)
(* the counts at completion are L for a limit L >= 0 and 0 for a negative  *)
(* limit.                                                                  *)

C19_ClickAccounting ==
    ~cfg.dry_run =>
        /\ C19_ClickBalance
        /\ placed <= index + 1
        /\ pc \notin {"inc_index", "KeyboardInterrupt", "exited"} => placed <= index
        /\ Completed =>
            /\ cfg.limit # None
            /\ placed <= index
            /\ selectClicks = Max(0, cfg.limit[1])
            /\ placeClicks = Max(0, cfg.limit[1])
            /\ placed = Max(0, cfg.limit[1])

\* interrupted between the select click and the place click of the second
\* placement, a row having been skipped before
C19_Witness ==
    /\ ~cfg.dry_run /\ pc = "KeyboardInterrupt"
    /\ selectClicks = 2 /\ placeClicks = 1 /\ placed = 1 /\ index = 2
    /\ rowOps # <<>> /\ rowOps[Len(rowOps)] = Op("click", <<>>)

-----------------------------------------------------------------------------
(* C20: a dry run samples no pixel and finds every row Valid, whatever the *)
(* colours configured, so index = placed at every loop head and one line   *)
(* is traced per row; with a limit L >= 0 it leaves the loop, unless       *)
(* interrupted, and does so with index = placed = L and L trace lines; its *)
(* scroll_rows_consumed at row i is what the scroll block gives a real run *)
(* whose rows 0..i are all Valid.                                          *)

\* scroll_rows_consumed after the scroll block of row i, the rows being
\* visited one by one from 0: lines 157-165
RECURSIVE ValidRunScroll(_, _)
ValidRunScroll(i, vis) ==
    LET prev == IF i = 0 THEN 0 ELSE ValidRunScroll(i - 1, vis)
        riv == i - prev
    IN  IF riv >= vis THEN prev + RowsToScroll(riv, vis) ELSE prev

HasLimit == cfg.limit # None /\ cfg.limit[1] >= 0

\* no row has been skipped so far
AllValidSoFar ==
    \/ placed = index
    \/ placed = index + 1 /\ pc \in {"inc_index", "KeyboardInterrupt", "exited"}

C20_DryState ==
    /\ cfg.dry_run =>
        /\ ~Skipped /\ catSample = "none" /\ itemSample = "none"
        /\ "pixelMatchesColor" \notin invoked
        /\ AllValidSoFar
        /\ pc \in {"while", "view", "returned"} => Len(trace) = placed
        /\ pc \in RowPcs => scroll_rows_consumed = ValidRunScroll(index, visible_rows)
        /\ HasLimit =>
            /\ index <= cfg.limit[1]
            /\ Completed =>
                /\ index = cfg.limit[1] /\ placed = cfg.limit[1]
                /\ Len(trace) = cfg.limit[1]
    /\ (~cfg.dry_run /\ AllValidSoFar /\ pc \in RowPcs) =>
            scroll_rows_consumed = ValidRunScroll(index, visible_rows)

C20_Completes ==
    (cfg.dry_run /\ HasLimit /\ SetupDone)
        ~> (exit_status = Some(0) \/ "Interrupted" \in printed)

C20_DryRunAllValid == []C20_DryState /\ C20_Completes

\* a dry run of limit 2 with both colours configured and one visible row:
\* two rows traced, one scroll counted
C20_Witness ==
    /\ cfg.dry_run /\ cfg.limit = Some(2) /\ pc = "returned"
    /\ cfg.category_color # None /\ cfg.item_color # None
    /\ visible_rows = 1 /\ index = 2 /\ placed = 2 /\ Len(trace) = 2
    /\ scroll_rows_consumed = 1

====
